---------------------------- MODULE Spec2Model ----------------------------
(***************************************************************************)
(* A model of package lantern (src/lantern.go): the startup coordination   *)
(* of Start / run, the bandwidth notifier of bandwidthUpdates, the         *)
(* afterStart sequence and the survey resolution of surveyRequest.         *)
(*                                                                         *)
(* Time is a discrete clock `now`.  A listener of the engine becoming      *)
(* ready advances the clock by one and is stamped with the new time, so a  *)
(* value stamped t was set before every time.Now() that reads t and after  *)
(* every one that reads less.  A bounded wait that has used up its timeout *)
(* and found no value returns before time advances further.                *)
(***************************************************************************)
EXTENDS Integers, Sequences, FiniteSets, TLC

VARIABLES
    now,          \* the clock
    startOnce,    \* sync.Once of line 44: TRUE once Do has run its function
    launches,     \* how many times `go run(...)` was executed
    runOwner,     \* the Start call whose arguments run captured (0: none)
    runPc,        \* position of the run goroutine
    httpAddr,     \* client.Addr's value: NoAddr until the engine listens
    socksAddr,    \* client.Socks5Addr's value
    httpSetAt,    \* clock stamp at which httpAddr was set (-1: not set)
    socksSetAt,   \* clock stamp at which socksAddr was set (-1: not set)
    call,         \* per Start call: its position, locals and return values
    waitsBegun,   \* history: how many times client.Addr was called
    homeDir,      \* appdir.SetHomeDir: the call whose configDir it holds (0: none)
    mkdirErr,     \* run's local err of line 153 ("none": not assigned, or dead)
    updates,      \* bandwidth.Updates: the samples in the channel
    delivered,    \* history: the samples the consumer has received, in order
    sink,         \* history: the calls of user.BandwidthUpdate, in order
    pushed,       \* how many samples the collaborator has pushed
    consumers,    \* how many goroutines of bandwidthUpdates range over the channel
    inSink,       \* how many calls of user.BandwidthUpdate have not returned
    afterPc,      \* position of afterStart ("idle": the engine has not called it)
    events,       \* history: what afterStart has done, in order
    surveyOut,    \* afterStart's (url, err) of line 225
    cbUsers,      \* history: the callbacks invoked, each with the call whose
                  \* user object it was invoked on
    svFetch,      \* survey resolution alone: what the fetch of surveyURL gives
    svLocale,     \* survey resolution alone: the locale asked for
    svOut,        \* survey resolution alone: what surveyRequest returned
    svPc          \* survey resolution alone: "ready", then "returned"

vars == <<now, startOnce, launches, runOwner, runPc, httpAddr,
          socksAddr, httpSetAt, socksSetAt, call, waitsBegun, homeDir,
          mkdirErr, updates, delivered, sink, pushed, consumers, inSink,
          afterPc, events, surveyOut, cbUsers,
          svFetch, svLocale, svOut, svPc>>

startVars == <<now, startOnce, launches, runOwner, runPc, httpAddr,
               socksAddr, httpSetAt, socksSetAt, call, waitsBegun, homeDir,
               mkdirErr>>

bwVars == <<updates, delivered, sink, pushed, consumers, inSink>>

afterVars == <<afterPc, events, surveyOut, cbUsers>>

surveyVars == <<svFetch, svLocale, svOut, svPc>>

---------------------------------------------------------------------------
(* Bounds of the model *)

NCalls == 2
MaxBudget == 2
MaxTime == 4
MaxStream == 2

Calls == 1..NCalls
Budgets == 0..MaxBudget

---------------------------------------------------------------------------
(* Values *)

NoAddr == ""
HTTPAddrs == {"127.0.0.1:49152"}
SOCKSAddrs == {"127.0.0.1:49153"}

NoResult == [HTTPAddr |-> NoAddr, SOCKS5Addr |-> NoAddr, nil |-> TRUE]
StartResult(h, s) == [HTTPAddr |-> h, SOCKS5Addr |-> s, nil |-> FALSE]

NoError == "nil"
ErrHTTP == "HTTP Proxy didn't start within given timeout"
ErrSOCKS == "SOCKS5 Proxy didn't start within given timeout"

NewCall == [pc |-> "idle", budget |-> 0, start |-> 0, addr |-> NoAddr,
            elapsed |-> 0, socksTimeout |-> 0, socksStart |-> 0,
            httpOk |-> FALSE, socksTried |-> FALSE, socksOk |-> FALSE,
            socksWasSet |-> FALSE,
            afterFailure |-> FALSE,
            result |-> NoResult, err |-> NoError]

---------------------------------------------------------------------------
(* Start, lines 110-130 *)

\* An HTTP or SOCKS wait whose timeout has run out with no value set: the
\* wait returns (nil, false) before the clock advances.
Expired ==
    \E c \in Calls :
        \/ /\ call[c].pc = "waitHTTP"
           /\ httpAddr = NoAddr
           /\ now >= call[c].start + call[c].budget
        \/ /\ call[c].pc = "waitSOCKS"
           /\ socksAddr = NoAddr
           /\ now >= call[c].socksStart + call[c].socksTimeout

CanAdvance == now < MaxTime /\ ~Expired

SomeCallFailed == \E d \in Calls : call[d].pc = "done" /\ call[d].err # NoError

\* mutant: a guard that lets every call launch run
OnceAlwaysFires == TRUE

\* mutant: a guard that is reset by a failed call, so that a retry launches again
OnceFiresAgainAfterFailure == ~startOnce \/ SomeCallFailed

\* sync.Once: Do runs its function only while the once has not fired
OnceFires == ~startOnce

\* line 121, 127, 129: Start returns (res, e); its locals are dead
Return(c, res, e) ==
    [call[c] EXCEPT !.pc = "done", !.addr = NoAddr, !.elapsed = 0,
                    !.socksTimeout = 0, !.socksStart = 0,
                    !.result = res, !.err = e]

\* line 110-119: the call is made, appdir.SetHomeDir(configDir),
\* startOnce.Do(func() { go run(...) }), start := time.Now(), and the HTTP
\* wait begins.  Calls are numbered in the
\* order in which they are made.
StartBegin(c, T) ==
    /\ call[c].pc = "idle"
    /\ \A d \in Calls : d < c => call[d].pc # "idle"
    /\ IF OnceFires
         THEN /\ startOnce' = TRUE
              /\ launches' = launches + 1
              /\ runOwner' = c
              /\ runPc' = "setup"
         ELSE UNCHANGED <<startOnce, launches, runOwner, runPc>>
    /\ call' = [call EXCEPT ![c].pc = "waitHTTP", ![c].budget = T,
                            ![c].start = now,
                            ![c].afterFailure = SomeCallFailed]
    /\ waitsBegun' = waitsBegun + 1
    /\ homeDir' = c
    /\ UNCHANGED <<now, httpAddr, socksAddr, httpSetAt, socksSetAt, mkdirErr>>
    /\ UNCHANGED <<bwVars, afterVars, surveyVars>>

\* line 119: client.Addr returns (addr, true) as the value is set
HTTPWaitOk(c) ==
    /\ call[c].pc = "waitHTTP"
    /\ httpAddr # NoAddr
    /\ call' = [call EXCEPT ![c].pc = "measure", ![c].addr = httpAddr,
                            ![c].httpOk = TRUE]
    /\ UNCHANGED <<now, startOnce, launches, runOwner, runPc,
                   httpAddr, socksAddr, httpSetAt, socksSetAt, waitsBegun>>
    /\ UNCHANGED <<homeDir, mkdirErr>>
    /\ UNCHANGED <<bwVars, afterVars, surveyVars>>

\* mutant: the `if !ok` of line 120 is missing, and Start goes on to the
\* SOCKS wait after an HTTP timeout
HTTPWaitTimeoutIgnored(c) ==
    /\ call[c].pc = "waitHTTP"
    /\ httpAddr = NoAddr
    /\ now >= call[c].start + call[c].budget
    /\ call' = [call EXCEPT ![c].pc = "measure"]
    /\ UNCHANGED <<now, startOnce, launches, runOwner, runPc,
                   httpAddr, socksAddr, httpSetAt, socksSetAt, waitsBegun>>
    /\ UNCHANGED <<homeDir, mkdirErr>>
    /\ UNCHANGED <<bwVars, afterVars, surveyVars>>

\* mutant: a Start call that times out also stops the background run
HTTPWaitTimeoutCancels(c) ==
    /\ call[c].pc = "waitHTTP"
    /\ httpAddr = NoAddr
    /\ now >= call[c].start + call[c].budget
    /\ call' = [call EXCEPT ![c] = Return(c, NoResult, ErrHTTP)]
    /\ runPc' = "returned"
    /\ UNCHANGED <<now, startOnce, launches, runOwner,
                   httpAddr, socksAddr, httpSetAt, socksSetAt, waitsBegun>>
    /\ UNCHANGED <<homeDir, mkdirErr>>
    /\ UNCHANGED <<bwVars, afterVars, surveyVars>>

\* line 119-122: client.Addr returns (nil, false), Start returns the error
HTTPWaitTimeout(c) ==
    /\ call[c].pc = "waitHTTP"
    /\ httpAddr = NoAddr
    /\ now >= call[c].start + call[c].budget
    /\ call' = [call EXCEPT ![c] = Return(c, NoResult, ErrHTTP)]
    /\ UNCHANGED <<now, startOnce, launches, runOwner, runPc,
                   httpAddr, socksAddr, httpSetAt, socksSetAt, waitsBegun>>
    /\ UNCHANGED <<homeDir, mkdirErr>>
    /\ UNCHANGED <<bwVars, afterVars, surveyVars>>

\* mutant: the elapsed time is charged twice
SocksTimeoutChargedTwice(budget, elapsed) == budget - 2 * elapsed

\* line 125: the timeout handed to client.Socks5Addr
SocksTimeout(budget, elapsed) == budget - elapsed

\* line 123-125: elapsed := time.Now().Sub(start), and the SOCKS wait begins
Measure(c) ==
    /\ call[c].pc = "measure"
    /\ LET el == now - call[c].start
       IN call' = [call EXCEPT ![c].pc = "waitSOCKS",
                               ![c].elapsed = el,
                               ![c].socksTimeout = SocksTimeout(call[c].budget, el),
                               ![c].socksStart = now,
                               ![c].socksTried = TRUE,
                               ![c].socksWasSet = (socksAddr # NoAddr)]
    /\ UNCHANGED <<now, startOnce, launches, runOwner, runPc, httpAddr,
                   socksAddr, httpSetAt, socksSetAt, waitsBegun>>
    /\ UNCHANGED <<homeDir, mkdirErr>>
    /\ UNCHANGED <<bwVars, afterVars, surveyVars>>

\* line 129: the value Start returns when both waits succeeded
StartReturn(addr, socks) == StartResult(addr, socks)

\* line 125, 129: client.Socks5Addr returns (socksAddr, true)
SOCKSWaitOk(c) ==
    /\ call[c].pc = "waitSOCKS"
    /\ socksAddr # NoAddr
    /\ call' = [call EXCEPT
                   ![c] = [Return(c, StartReturn(call[c].addr, socksAddr), NoError)
                             EXCEPT !.socksOk = TRUE]]
    /\ UNCHANGED <<now, startOnce, launches, runOwner, runPc,
                   httpAddr, socksAddr, httpSetAt, socksSetAt, waitsBegun>>
    /\ UNCHANGED <<homeDir, mkdirErr>>
    /\ UNCHANGED <<bwVars, afterVars, surveyVars>>

\* mutant: a SOCKS timeout returns the HTTP address alone, with no error
SOCKSWaitTimeoutPartial(c) ==
    /\ call[c].pc = "waitSOCKS"
    /\ socksAddr = NoAddr
    /\ now >= call[c].socksStart + call[c].socksTimeout
    /\ call' = [call EXCEPT
                   ![c] = Return(c, StartResult(call[c].addr, NoAddr), NoError)]
    /\ UNCHANGED <<now, startOnce, launches, runOwner, runPc,
                   httpAddr, socksAddr, httpSetAt, socksSetAt, waitsBegun>>
    /\ UNCHANGED <<homeDir, mkdirErr>>
    /\ UNCHANGED <<bwVars, afterVars, surveyVars>>

\* line 125-128: client.Socks5Addr returns (nil, false)
SOCKSWaitTimeout(c) ==
    /\ call[c].pc = "waitSOCKS"
    /\ socksAddr = NoAddr
    /\ now >= call[c].socksStart + call[c].socksTimeout
    /\ call' = [call EXCEPT ![c] = Return(c, NoResult, ErrSOCKS)]
    /\ UNCHANGED <<now, startOnce, launches, runOwner, runPc,
                   httpAddr, socksAddr, httpSetAt, socksSetAt, waitsBegun>>
    /\ UNCHANGED <<homeDir, mkdirErr>>
    /\ UNCHANGED <<bwVars, afterVars, surveyVars>>

---------------------------------------------------------------------------
(* run, lines 149-192 *)

MkdirOutcomes == {"ok", "exists", "other"}

\* line 154: os.IsExist(err)
IsExist(err) == err = "exists"

\* mutant: the callbacks are those of the latest Start call made
LatestUser == homeDir

\* line 115, 149: the user object run was launched with, which the closures
\* of lines 182-187 capture
RunUser == runOwner

\* line 217, 224, 227, 303: a method of the UserConfig that run was launched
\* with is called; afterFailure records whether a Start call had returned an
\* error by then
Callback(name) ==
    [cb |-> name, user |-> RunUser, afterFailure |-> SomeCallFailed]

\* line 150-153: err := os.MkdirAll(configDir, 0755)
RunMkdir(err) ==
    /\ runPc = "setup"
    /\ runPc' = "mkdir"
    /\ mkdirErr' = err
    /\ UNCHANGED <<now, startOnce, launches, runOwner, httpAddr, socksAddr,
                   httpSetAt, socksSetAt, call, waitsBegun, homeDir>>
    /\ UNCHANGED <<bwVars, afterVars, surveyVars>>

\* line 154-171: the return on os.IsExist(err), then
\* logging.EnableFileLogging and the return on its error; otherwise run
\* goes on to flashlight.Run (err is assigned anew at line 165)
RunSetup(loggingFailed) ==
    /\ runPc = "mkdir"
    /\ runPc' = IF IsExist(mkdirErr) \/ loggingFailed THEN "returned" ELSE "engine"
    /\ mkdirErr' = "none"
    /\ UNCHANGED <<now, startOnce, launches, runOwner, httpAddr, socksAddr,
                   httpSetAt, socksSetAt, call, waitsBegun, homeDir>>
    /\ UNCHANGED <<bwVars, afterVars, surveyVars>>

\* line 172-173: flashlight.Run binds the HTTP listener
EngineListenHTTP(a) ==
    /\ runPc = "engine"
    /\ httpAddr = NoAddr
    /\ CanAdvance
    /\ now' = now + 1
    /\ httpAddr' = a
    /\ httpSetAt' = now + 1
    /\ UNCHANGED <<startOnce, launches, runOwner, runPc, socksAddr,
                   socksSetAt, call, waitsBegun>>
    /\ UNCHANGED <<homeDir, mkdirErr>>
    /\ UNCHANGED <<bwVars, afterVars, surveyVars>>

\* line 172-173: flashlight.Run binds the SOCKS listener
EngineListenSOCKS(a) ==
    /\ runPc = "engine"
    /\ socksAddr = NoAddr
    /\ CanAdvance
    /\ now' = now + 1
    /\ socksAddr' = a
    /\ socksSetAt' = now + 1
    /\ UNCHANGED <<startOnce, launches, runOwner, runPc, httpAddr,
                   httpSetAt, call, waitsBegun>>
    /\ UNCHANGED <<homeDir, mkdirErr>>
    /\ UNCHANGED <<bwVars, afterVars, surveyVars>>

\* time passes
Tick ==
    /\ CanAdvance
    /\ now' = now + 1
    /\ UNCHANGED <<startOnce, launches, runOwner, runPc, httpAddr,
                   socksAddr, httpSetAt, socksSetAt, call, waitsBegun>>
    /\ UNCHANGED <<homeDir, mkdirErr>>
    /\ UNCHANGED <<bwVars, afterVars, surveyVars>>

---------------------------------------------------------------------------
(* float64 arithmetic of line 213, on bit sequences (most significant bit  *)
(* first): IEEE 754 binary64, round to nearest, ties to even.  A positive  *)
(* float is [m |-> its MantissaBits bits, e |-> the exponent of the last   *)
(* bit]: its value is m * 2^e.                                             *)

MantissaBits == 53
Hundred == 100

RECURSIVE BitsToInt(_)
BitsToInt(bits) ==
    IF bits = <<>> THEN 0
    ELSE 2 * BitsToInt(SubSeq(bits, 1, Len(bits) - 1)) + bits[Len(bits)]

RECURSIVE IntToBits(_)
IntToBits(n) == IF n = 0 THEN <<>> ELSE IntToBits(n \div 2) \o <<n % 2>>

RECURSIVE AnyOne(_)
AnyOne(bits) == bits # <<>> /\ (bits[1] = 1 \/ AnyOne(Tail(bits)))

\* bits + 1; the result is one bit longer when every bit was 1
RECURSIVE Incr(_)
Incr(bits) ==
    IF bits = <<>> THEN <<1>>
    ELSE IF bits[Len(bits)] = 0
         THEN SubSeq(bits, 1, Len(bits) - 1) \o <<1>>
         ELSE Incr(SubSeq(bits, 1, Len(bits) - 1)) \o <<0>>

\* Rounds the exact value bits * 2^e (bits has no leading zero and at least
\* MantissaBits + 1 bits, sticky tells of a nonzero rest below bits) to a float.
RoundToFloat(bits, e, sticky) ==
    LET n == Len(bits)
        m == SubSeq(bits, 1, MantissaBits)
        guard == bits[MantissaBits + 1]
        rest == sticky \/ AnyOne(SubSeq(bits, MantissaBits + 2, n))
        up == guard = 1 /\ (rest \/ m[MantissaBits] = 1)
        m1 == IF up THEN Incr(m) ELSE m
        e1 == e + (n - MantissaBits)
    IN IF Len(m1) > MantissaBits
         THEN [m |-> SubSeq(m1, 1, MantissaBits), e |-> e1 + 1]
         ELSE [m |-> m1, e |-> e1]

\* the smallest d = a * 2^s with d > u
RECURSIVE Scale(_, _, _)
Scale(u, d, s) == IF d > u THEN [d |-> d, s |-> s] ELSE Scale(u, 2 * d, s + 1)

\* r / d, 0 < r < d, shifted left until its first fraction bit is 1
RECURSIVE Normalize(_, _, _)
Normalize(r, d, z) ==
    IF 2 * r >= d THEN [r |-> r, z |-> z] ELSE Normalize(2 * r, d, z + 1)

\* the bits of v in a field of w bits
FixedBits(v, w) == [i \in 1..w |-> (v \div (2 ^ (w - i))) % 2]

\* acc followed by the next n bits (four at a time) of the binary fraction
\* r / d, and the remainder
RECURSIVE FracBits(_, _, _, _)
FracBits(r, d, n, acc) ==
    IF n <= 0 THEN [bits |-> acc, rem |-> r]
    ELSE FracBits((16 * r) % d, d, n - 4, acc \o FixedBits((16 * r) \div d, 4))

\* float64(u) / float64(a) for integers u > 0, a > 0 (both exact as floats)
FloatDiv(u, a) ==
    LET sc == Scale(u, a, 0)
        nz == Normalize(u, sc.d, 0)
        q == FracBits(nz.r, sc.d, MantissaBits + 1, <<>>)
    IN RoundToFloat(q.bits, sc.s - nz.z - Len(q.bits), q.rem # 0)

\* bits * k + carry, for a small integer k, four bits at a time
RECURSIVE MulBits(_, _, _)
MulBits(bits, k, carry) ==
    IF bits = <<>> THEN IntToBits(carry)
    ELSE LET n == Len(bits)
             w == IF n < 4 THEN n ELSE 4
             t == k * BitsToInt(SubSeq(bits, n - w + 1, n)) + carry
         IN MulBits(SubSeq(bits, 1, n - w), k, t \div (2 ^ w))
                \o FixedBits(t % (2 ^ w), w)

\* 100 * x
FloatMulHundred(x) == RoundToFloat(MulBits(x.m, Hundred, 0), x.e, FALSE)

\* int(x) for a positive float below 2^31: truncation
FloatToInt(x) ==
    IF x.e >= 0 THEN BitsToInt(x.m \o [i \in 1..x.e |-> 0])
    ELSE IF MantissaBits + x.e <= 0 THEN 0
    ELSE BitsToInt(SubSeq(x.m, 1, MantissaBits + x.e))

\* line 213: int(100 * (float64(used) / float64(allowed))), allowed > 0.
\* Division, multiplication and rounding are symmetric in the sign, and the
\* conversion truncates towards zero.
Percent(used, allowed) ==
    IF used = 0 THEN 0
    ELSE IF used > 0 THEN FloatToInt(FloatMulHundred(FloatDiv(used, allowed)))
    ELSE 0 - FloatToInt(FloatMulHundred(FloatDiv(0 - used, allowed)))

---------------------------------------------------------------------------
(* bandwidthUpdates, lines 194-220 *)

Nil == [nil |-> TRUE, MiBAllowed |-> 0, MiBUsed |-> 0]
Quota(allowed, used) == [nil |-> FALSE, MiBAllowed |-> allowed, MiBUsed |-> used]

MaxAllowed == 50000000

\* The samples the collaborator delivers in the model: the absent sample, the
\* edges of the accepted range, equal, smaller and negative use.
Samples ==
    { Nil,
      Quota(-1, 0), Quota(MaxAllowed + 1, 0),
      Quota(MaxAllowed, 1), Quota(MaxAllowed, MaxAllowed - 1),
      Quota(0, 0), Quota(0, 5), Quota(0, -1),
      Quota(100, 100), Quota(100, 250), Quota(200, 50), Quota(100, 29),
      Quota(3, 1), Quota(3, 2), Quota(100, -1), Quota(3, -10) }

\* int(x) for x = -Inf (line 213 with allowed = 0 and used < 0): the value is
\* implementation-dependent in Go; the compilers give the least integer of
\* the width of int.  The least 32-bit integer stands for both widths.
IntOfNegInf == {(0 - 2147483647) - 1}

\* mutant: the upper limit itself is discarded
DiscardedAtLimit(q) ==
    \/ q.nil
    \/ q.MiBAllowed < 0
    \/ q.MiBAllowed >= MaxAllowed

\* line 200-207: the sample is skipped
Discarded(q) ==
    \/ q.nil
    \/ q.MiBAllowed < 0
    \/ q.MiBAllowed > MaxAllowed

\* line 198-215: the (percent, remaining) pairs the loop body computes
QuotaSignals(q) ==
    IF q.MiBUsed >= q.MiBAllowed THEN {<<100, 0>>}
    ELSE IF q.MiBAllowed = 0
         THEN {<<p, q.MiBAllowed - q.MiBUsed>> : p \in IntOfNegInf}
         ELSE {<<Percent(q.MiBUsed, q.MiBAllowed), q.MiBAllowed - q.MiBUsed>>}

\* mutant: the newest signal is put before the earlier ones
BandwidthUpdateFirst(calls, signal) == <<signal>> \o calls

\* line 217: user.BandwidthUpdate(percent, remaining)
BandwidthUpdate(calls, signal) == Append(calls, signal)

\* the bandwidth collaborator sends a sample on bandwidth.Updates
BandwidthPush(q) ==
    /\ pushed < MaxStream
    /\ pushed' = pushed + 1
    /\ updates' = Append(updates, q)
    /\ UNCHANGED <<delivered, sink, consumers, inSink>>
    /\ UNCHANGED <<startVars, afterVars, surveyVars>>

\* mutant: the sink is called in a goroutine of its own (`go
\* user.BandwidthUpdate(...)`), so the loop receives on while it executes
AsyncSinkIdle == consumers

\* line 196, 217: the goroutines that are at the receive of line 196; one that
\* has called the sink is back there only when the sink has returned
IdleConsumers == consumers - inSink

\* line 196-217: one iteration of `for quota := range bandwidth.Updates`, up
\* to the `continue` or into the call of the sink
BandwidthRecv ==
    /\ IdleConsumers > 0
    /\ updates # <<>>
    /\ LET quota == Head(updates)
       IN /\ updates' = Tail(updates)
          /\ delivered' = Append(delivered, quota)
          /\ IF Discarded(quota)
               THEN /\ sink' = sink
                    /\ inSink' = inSink
                    /\ cbUsers' = cbUsers
               ELSE /\ \E signal \in QuotaSignals(quota) :
                          sink' = BandwidthUpdate(sink, signal)
                    /\ inSink' = inSink + 1
                    /\ cbUsers' = cbUsers \cup {Callback("BandwidthUpdate")}
    /\ UNCHANGED <<pushed, consumers>>
    /\ UNCHANGED <<startVars, afterPc, events, surveyOut, surveyVars>>

\* line 217-218: user.BandwidthUpdate returns, and the loop receives again
BandwidthReturn ==
    /\ inSink > 0
    /\ inSink' = inSink - 1
    /\ UNCHANGED <<updates, delivered, sink, pushed, consumers>>
    /\ UNCHANGED <<startVars, afterVars, surveyVars>>

NextBW ==
    \/ \E q \in Samples : BandwidthPush(q)
    \/ BandwidthRecv
    \/ BandwidthReturn

---------------------------------------------------------------------------
(* surveyRequest and extractUrl, lines 236-300.  A locale and a key of the *)
(* locale map are strings, modelled as sequences of characters.            *)

enUS == <<"e", "n", "-", "U", "S">>
en_US == <<"e", "n", "_", "U", "S">>
frFR == <<"f", "r", "-", "F", "R">>
fr_FR == <<"f", "r", "_", "F", "R">>
deDE == <<"d", "e", "-", "D", "E">>
zhHansCN == <<"z", "h", "-", "H", "a", "n", "s", "-", "C", "N">>
zh_Hans_CN == <<"z", "h", "_", "H", "a", "n", "s", "_", "C", "N">>

\* line 35: defaultLocale = "en-US"
defaultLocale == enUS

\* the locales a Start call passes
Locales == {enUS, en_US, frFR, fr_FR, deDE, zh_Hans_CN}

\* the keys the "survey" object of the fetched document can have
SurveyKeys == {enUS, frFR, fr_FR, zhHansCN}

SurveyURLs == {"", "https://a.example/survey", "https://b.example/survey"}

\* line 27-34, 241: a value of the locale map that json.Unmarshal decodes
\* into a SurveyInfo whose Url is url
SurveyInfo(url) == [kind |-> "info", url |-> url]

\* line 241: a value json.Unmarshal returns an error for (not an object, or
\* a field of the wrong type)
MalformedEntry == [kind |-> "malformed"]

\* line 236, 241: the JSON value null, which decodes to a nil *json.RawMessage
NullEntry == [kind |-> "null"]

EntryValues == {NullEntry, MalformedEntry} \cup {SurveyInfo(u) : u \in SurveyURLs}

\* line 289: the values of map[string]*json.RawMessage
SurveyMaps == UNION {[D -> EntryValues] : D \in SUBSET SurveyKeys}

\* what surveyRequest and extractUrl return: (url, err), or the panic of a nil
\* dereference; lookups is the history of the keys looked up in the map
SurveyReturn(url, err, lookups) ==
    [url |-> url, err |-> err, panic |-> FALSE, lookups |-> lookups]

SurveyPanic(lookups) ==
    [url |-> "", err |-> "nil", panic |-> TRUE, lookups |-> lookups]

ErrFetch == "fetch"
ErrRead == "read"
ErrParse == "parse"

\* mutant: a missing key gives ("", nil) without the lookup of the default
extractUrlNoFallback(surveys, locale) ==
    IF locale \in DOMAIN surveys
      THEN LET val == surveys[locale]
           IN IF val = NullEntry THEN SurveyPanic(<<locale>>)
              ELSE IF val = MalformedEntry
                     THEN SurveyReturn("", ErrParse, <<locale>>)
                     ELSE SurveyReturn(val.url, NoError, <<locale>>)
      ELSE SurveyReturn("", NoError, <<locale>>)

RECURSIVE extractUrlByLanguage(_, _)
\* mutant: a missing key falls back to the language alone, and that to the
\* default locale
extractUrlByLanguage(surveys, locale) ==
    IF locale \in DOMAIN surveys
      THEN LET val == surveys[locale]
           IN IF val = NullEntry THEN SurveyPanic(<<locale>>)
              ELSE IF val = MalformedEntry
                     THEN SurveyReturn("", ErrParse, <<locale>>)
                     ELSE SurveyReturn(val.url, NoError, <<locale>>)
      ELSE IF locale # defaultLocale
             THEN LET next == IF Len(locale) > 2 THEN SubSeq(locale, 1, 2)
                                                 ELSE defaultLocale
                      r == extractUrlByLanguage(surveys, next)
                  IN [r EXCEPT !.lookups = <<locale>> \o @]
             ELSE SurveyReturn("", NoError, <<locale>>)

RECURSIVE extractUrl(_, _)
\* line 236-253
extractUrl(surveys, locale) ==
    IF locale \in DOMAIN surveys
      THEN LET val == surveys[locale]
           IN IF val = NullEntry THEN SurveyPanic(<<locale>>)
              ELSE IF val = MalformedEntry
                     THEN SurveyReturn("", ErrParse, <<locale>>)
                     ELSE SurveyReturn(val.url, NoError, <<locale>>)
      ELSE IF locale # defaultLocale
             THEN LET r == extractUrl(surveys, defaultLocale)
                  IN [r EXCEPT !.lookups = <<locale>> \o @]
             ELSE SurveyReturn("", NoError, <<locale>>)

\* mutant: strings.Replace(s, old, new, 1), the first occurrence alone
ReplaceFirst(s, old, new) ==
    [i \in 1..Len(s) |->
        IF s[i] = old /\ (\A j \in 1..(i - 1) : s[j] # old) THEN new ELSE s[i]]

\* line 295: strings.Replace(s, old, new, -1) for one-character old and new
Replace(s, old, new) ==
    [i \in 1..Len(s) |-> IF s[i] = old THEN new ELSE s[i]]

\* what the fetch of lines 264-286 can give: a transport error, a read
\* error, a body that is not a JSON object, a document without a "survey"
\* (or with "survey": null), one whose "survey" is not an object, and one
\* with a locale map
FetchFailed == [kind |-> "fetchError"]
ReadFailed == [kind |-> "readError"]
NotJSON == [kind |-> "notJSON"]
NoSurvey == [kind |-> "noSurvey"]
SurveyNotObject == [kind |-> "surveyNotObject"]
SurveyDoc(surveys) == [kind |-> "doc", surveys |-> surveys]

Fetches ==
    {FetchFailed, ReadFailed, NotJSON, NoSurvey, SurveyNotObject}
        \cup {SurveyDoc(m) : m \in SurveyMaps}

\* line 255-300, given what the fetch gives
surveyRequest(fetch, locale) ==
    IF fetch = FetchFailed THEN SurveyReturn("", ErrFetch, <<>>)
    ELSE IF fetch = ReadFailed THEN SurveyReturn("", ErrRead, <<>>)
    ELSE IF fetch = NotJSON THEN SurveyReturn("", ErrParse, <<>>)
    ELSE IF fetch = NoSurvey THEN SurveyReturn("", NoError, <<>>)
    ELSE IF fetch = SurveyNotObject THEN SurveyReturn("", ErrParse, <<>>)
    ELSE extractUrl(fetch.surveys, Replace(locale, "_", "-"))

\* one resolution: surveyRequest(locale) is called and returns
SurveyRequest ==
    /\ svPc = "ready"
    /\ svOut' = surveyRequest(svFetch, svLocale)
    /\ svPc' = "returned"
    /\ UNCHANGED <<svFetch, svLocale>>
    /\ UNCHANGED <<startVars, bwVars, afterVars>>

NextSurvey == SurveyRequest

---------------------------------------------------------------------------
(* afterStart and configUpdate, lines 222-229 and 302-304, called by the   *)
(* engine of flashlight.Run                                                *)

\* line 110: the locale argument of the c-th Start call
CallLocales == <<fr_FR, deDE, en_US, zh_Hans_CN>>
LocaleOf(c) == CallLocales[((c - 1) % Len(CallLocales)) + 1]

\* line 115, 183: the locale run was launched with, which the closure of
\* line 183 captures
RunLocale == LocaleOf(RunUser)

\* what the fetch of the survey document gives in the afterStart sequence
LifeFetches ==
    {FetchFailed, NotJSON, NoSurvey,
     SurveyDoc([k \in {frFR} |-> SurveyInfo("https://b.example/survey")]),
     SurveyDoc([k \in {enUS} |-> SurveyInfo("")]),
     SurveyDoc([k \in {frFR} |-> MalformedEntry]),
     SurveyDoc([k \in {enUS} |-> NullEntry])}

\* a panic that nothing in this package recovers ends the process
Running == afterPc # "panic"

\* line 185-187, 302-304: the engine calls onConfigUpdate
EngineConfigUpdate ==
    /\ runPc = "engine"
    /\ cbUsers' = cbUsers \cup {Callback("ConfigUpdate")}
    /\ UNCHANGED <<afterPc, events, surveyOut>>
    /\ UNCHANGED <<startVars, bwVars, surveyVars>>

\* line 182-184, 222-223: the engine calls its afterStart callback, once, and
\* bandwidthUpdates(user) starts the goroutine of line 195
EngineAfterStart ==
    /\ runPc = "engine"
    /\ afterPc = "idle"
    /\ afterPc' = "hook"
    /\ consumers' = consumers + 1
    /\ events' = Append(events, "bandwidthUpdates")
    /\ UNCHANGED <<surveyOut, cbUsers>>
    /\ UNCHANGED <<updates, delivered, sink, pushed, inSink>>
    /\ UNCHANGED <<startVars, surveyVars>>

\* line 224: user.AfterStart() is called
AfterStartCall ==
    /\ afterPc = "hook"
    /\ afterPc' = "inHook"
    /\ events' = Append(events, "AfterStart")
    /\ cbUsers' = cbUsers \cup {Callback("AfterStart")}
    /\ UNCHANGED surveyOut
    /\ UNCHANGED <<startVars, bwVars, surveyVars>>

\* mutant: the survey is shown whenever the resolution gave no error
ShowsSurveyOnNilErr(out) == out.err = NoError

\* mutant: the survey is shown whatever the resolution gave
ShowsSurveyAlways(out) == TRUE

\* line 226: err == nil && url != ""
ShowsSurvey(out) == out.err = NoError /\ out.url # ""

\* line 224-226: user.AfterStart() returns, surveyRequest(locale) is called
\* and returns or panics, and the condition of line 226 is evaluated
AfterStartSurvey ==
    /\ afterPc = "inHook"
    /\ \E fetch \in LifeFetches :
          LET out == surveyRequest(fetch, RunLocale)
          IN /\ surveyOut' = out
             /\ afterPc' = IF out.panic THEN "panic"
                           ELSE IF ShowsSurvey(out) THEN "show" ELSE "done"
    /\ events' = events \o <<"AfterStart returned", "surveyRequest">>
    /\ UNCHANGED cbUsers
    /\ UNCHANGED <<startVars, bwVars, surveyVars>>

\* line 227: user.ShowSurvey(url)
AfterStartShow ==
    /\ afterPc = "show"
    /\ afterPc' = "done"
    /\ events' = Append(events, "ShowSurvey")
    /\ cbUsers' = cbUsers \cup {Callback("ShowSurvey")}
    /\ UNCHANGED surveyOut
    /\ UNCHANGED <<startVars, bwVars, surveyVars>>

---------------------------------------------------------------------------
(* The startup specification *)

InitStart ==
    /\ now = 0
    /\ startOnce = FALSE
    /\ launches = 0
    /\ runOwner = 0
    /\ runPc = "none"
    /\ httpAddr = NoAddr
    /\ socksAddr = NoAddr
    /\ httpSetAt = -1
    /\ socksSetAt = -1
    /\ call = [c \in Calls |-> NewCall]
    /\ waitsBegun = 0
    /\ homeDir = 0
    /\ mkdirErr = "none"

InitBW ==
    /\ updates = <<>>
    /\ delivered = <<>>
    /\ sink = <<>>
    /\ pushed = 0
    /\ inSink = 0

NoSurveyOut == [url |-> "", err |-> "nil", panic |-> FALSE, lookups |-> <<>>]

InitAfter ==
    /\ afterPc = "idle"
    /\ events = <<>>
    /\ surveyOut = NoSurveyOut
    /\ cbUsers = {}

\* outside the survey specification no resolution is under way
InitSurveyIdle ==
    /\ svFetch = [kind |-> "none"]
    /\ svLocale = <<>>
    /\ svOut = NoSurveyOut
    /\ svPc = "idle"

Init == InitStart /\ InitBW /\ consumers = 0 /\ InitAfter /\ InitSurveyIdle

\* the state after bandwidthUpdates has started its consumer goroutine
InitNotifier == InitStart /\ InitBW /\ consumers = 1 /\ InitAfter /\ InitSurveyIdle

Next ==
    \/ \E c \in Calls, T \in Budgets : StartBegin(c, T)
    \/ \E c \in Calls : HTTPWaitOk(c)
    \/ \E c \in Calls : HTTPWaitTimeout(c)
    \/ \E c \in Calls : Measure(c)
    \/ \E c \in Calls : SOCKSWaitOk(c)
    \/ \E c \in Calls : SOCKSWaitTimeout(c)
    \/ \E e \in MkdirOutcomes : RunMkdir(e)
    \/ \E f \in BOOLEAN : RunSetup(f)
    \/ \E a \in HTTPAddrs : EngineListenHTTP(a)
    \/ \E a \in SOCKSAddrs : EngineListenSOCKS(a)
    \/ Tick

Spec == Init /\ [][Next]_vars

\* The bandwidth notifier alone: the state after bandwidthUpdates has started
\* its consumer goroutine.
SpecBW == InitNotifier /\ [][NextBW]_vars

\* a resolution of any fetch for any locale is about to be made
InitSurvey ==
    /\ InitStart /\ InitBW /\ consumers = 0 /\ InitAfter
    /\ svFetch \in Fetches
    /\ svLocale \in Locales
    /\ svOut = NoSurveyOut
    /\ svPc = "ready"

SpecSurvey == InitSurvey /\ [][NextSurvey]_vars

\* the timeouts and the samples of the whole-process specification
LifeBudgets == {0}
LifeSamples == {Quota(200, 50)}

\* the whole process: Start calls, run, the engine's callbacks, the
\* afterStart sequence and the bandwidth notifier, until a panic
NextLife ==
    \/ Running /\ \E c \in Calls, T \in LifeBudgets : StartBegin(c, T)
    \/ Running /\ \E c \in Calls : HTTPWaitOk(c)
    \/ Running /\ \E c \in Calls : HTTPWaitTimeout(c)
    \/ Running /\ \E c \in Calls : Measure(c)
    \/ Running /\ \E c \in Calls : SOCKSWaitOk(c)
    \/ Running /\ \E c \in Calls : SOCKSWaitTimeout(c)
    \/ Running /\ \E e \in MkdirOutcomes : RunMkdir(e)
    \/ Running /\ \E f \in BOOLEAN : RunSetup(f)
    \/ Running /\ \E a \in HTTPAddrs : EngineListenHTTP(a)
    \/ Running /\ \E a \in SOCKSAddrs : EngineListenSOCKS(a)
    \/ Running /\ EngineConfigUpdate
    \/ Running /\ EngineAfterStart
    \/ Running /\ AfterStartCall
    \/ Running /\ AfterStartSurvey
    \/ Running /\ AfterStartShow
    \/ Running /\ \E q \in LifeSamples : BandwidthPush(q)
    \/ Running /\ BandwidthRecv
    \/ Running /\ BandwidthReturn

SpecLife == Init /\ [][NextLife]_vars

---------------------------------------------------------------------------
(* Properties of Start *)

Made(c) == call[c].pc # "idle"
Done(c) == call[c].pc = "done"
PastHTTPWait(c) == call[c].pc \in {"measure", "waitSOCKS", "done"}
Deadline(c) == call[c].start + call[c].budget
Succeeded(c) ==
    /\ Done(c)
    /\ ~call[c].result.nil
    /\ call[c].err = NoError
Failed(c) ==
    /\ Done(c)
    /\ call[c].result = NoResult
    /\ call[c].err # NoError
HTTPReadyWithin(c) == httpSetAt # -1 /\ httpSetAt <= Deadline(c)
SOCKSReadyWithin(c) == socksSetAt # -1 /\ socksSetAt <= Deadline(c)

\* C1: whatever the number and the interleaving of the Start calls, run is
\* launched exactly once as soon as one call has been made (and never
\* before), and every call that was made has begun a readiness wait of its own.
C1_LaunchedExactlyOnce ==
    /\ launches <= 1
    /\ (launches = 1) <=> (\E c \in Calls : Made(c))
    /\ launches = 1 => (runOwner \in Calls /\ runPc # "none")
    /\ waitsBegun = Cardinality({c \in Calls : Made(c)})

\* C1 witness: a second call is inside Start while the first is still in its
\* HTTP wait, and run was launched once
C1_Witness ==
    /\ \E c, d \in Calls :
          c # d /\ call[c].pc = "waitHTTP" /\ call[d].pc = "waitHTTP"
    /\ launches = 1
    /\ waitsBegun >= 2

\* C2: a call that has returned returned either a StartResult with both
\* addresses and no error, or no StartResult and an error; a StartResult is
\* returned only when both waits of the call returned ok, the HTTP address
\* having been set by the end of the HTTP slice and the SOCKS address by the
\* end of the SOCKS slice (or being there already when the SOCKS wait began);
\* a call that has not returned has returned nothing.
C2_ResultOrError ==
    \A c \in Calls :
        /\ ~Done(c) => call[c].result = NoResult /\ call[c].err = NoError
        /\ Done(c) => Succeeded(c) \/ Failed(c)
        /\ Succeeded(c) =>
              /\ call[c].result.HTTPAddr \in HTTPAddrs
              /\ call[c].result.SOCKS5Addr \in SOCKSAddrs
              /\ call[c].httpOk /\ call[c].socksOk
              /\ HTTPReadyWithin(c)
              /\ call[c].socksWasSet \/ SOCKSReadyWithin(c)
        /\ Failed(c) => call[c].err \in {ErrHTTP, ErrSOCKS}

\* C2 witness: one call has returned a StartResult and another an error
C2_Witness ==
    \E c, d \in Calls : Succeeded(c) /\ Failed(d) /\ call[d].err = ErrSOCKS

\* C3: a call does not stay in the HTTP wait past its budget while the HTTP
\* address is not set, and when the HTTP address was not set within the budget
\* of the start of the HTTP wait, the call has returned the HTTP error and no
\* result, and has not attempted the SOCKS wait.
C3_HTTPTimeoutReturnsError ==
    \A c \in Calls :
        /\ (call[c].pc = "waitHTTP" /\ httpAddr = NoAddr) => now <= Deadline(c)
        /\ (PastHTTPWait(c) /\ ~HTTPReadyWithin(c)) =>
              /\ Failed(c)
              /\ call[c].err = ErrHTTP
              /\ ~call[c].socksTried

\* C3 witness: a call with a positive budget has timed out on HTTP, and the
\* HTTP address was set only afterwards
C3_Witness ==
    \E c \in Calls :
        /\ Done(c) /\ call[c].err = ErrHTTP
        /\ call[c].budget > 0
        /\ httpSetAt > Deadline(c)

\* C4: the timeout handed to the SOCKS wait is the budget minus the time
\* elapsed during the HTTP wait, and is never negative.
C4_SocksTimeoutNeverNegative ==
    \A c \in Calls :
        call[c].pc = "waitSOCKS" =>
            /\ call[c].socksTimeout = call[c].budget - call[c].elapsed
            /\ call[c].socksTimeout >= 0

\* C5: a call that has returned, whose HTTP and SOCKS addresses were both set
\* within its budget of the call, has returned a StartResult with both
\* addresses non-empty and no error.
C5_ReadyInTimeSucceeds ==
    \A c \in Calls :
        (Done(c) /\ HTTPReadyWithin(c) /\ SOCKSReadyWithin(c)) =>
            /\ Succeeded(c)
            /\ call[c].result.HTTPAddr # NoAddr
            /\ call[c].result.SOCKS5Addr # NoAddr

\* C5 witness: a call has succeeded whose SOCKS address was set while the call
\* was in its SOCKS wait, after the HTTP address was set during its HTTP wait
C5_Witness ==
    \E c \in Calls :
        /\ Succeeded(c)
        /\ ~call[c].socksWasSet
        /\ httpSetAt > call[c].start

\* C6: a call made after another call has failed launches nothing (run stays
\* launched once, with the arguments of an earlier call), begins readiness
\* waits of its own, and, when both addresses are set within its own budget
\* of its own start, returns a StartResult.
C6_RetryReusesInstance ==
    \A d \in Calls :
        (Made(d) /\ call[d].afterFailure) =>
            /\ launches = 1
            /\ runOwner # d
            /\ \E c \in Calls : c # d /\ Failed(c) /\ call[c].start <= call[d].start
            /\ (call[d].pc = "waitHTTP" /\ httpAddr = NoAddr) => now <= Deadline(d)
            /\ (Done(d) /\ HTTPReadyWithin(d) /\ SOCKSReadyWithin(d)) => Succeeded(d)

\* C6 witness: a call made after a failed call has returned a StartResult
C6_Witness ==
    \E c, d \in Calls :
        /\ Failed(c)
        /\ call[d].afterFailure
        /\ Succeeded(d)

\* C15: when the creation of the config directory has failed for a reason
\* other than "already exists", run does not go on to the engine.
C15_MkdirFailureAborts ==
    [][(runPc = "mkdir" /\ mkdirErr = "other") => runPc' # "engine"]_vars

---------------------------------------------------------------------------
(* Properties of the bandwidth notifier *)

\* the discard policy, as stated: absent, below 0 or above 50,000,000
PolicyDiscards(q) == q.nil \/ q.MiBAllowed < 0 \/ q.MiBAllowed > 50000000

Accepted == SelectSeq(delivered, LAMBDA q : ~PolicyDiscards(q))

\* floor(100 * u / a) for a > 0, without a product above 10 * a
FloorPercent(u, a) ==
    LET r0 == u % a
        r1 == (10 * r0) % a
    IN 100 * (u \div a) + 10 * ((10 * r0) \div a) + ((10 * r1) \div a)

\* C7: every call of the sink has 0 <= percent <= 100 and remaining >= 0.
C7_SignalInRange ==
    \A i \in 1..Len(sink) :
        /\ 0 <= sink[i][1] /\ sink[i][1] <= 100
        /\ sink[i][2] >= 0

\* C8: the samples received so far that are absent or have MiBAllowed < 0 or
\* MiBAllowed > 50,000,000 caused no call of the sink, and every other sample
\* received caused exactly one.
C8_DiscardPolicy ==
    /\ Len(sink) = Len(Accepted)
    /\ Len(delivered) = Len(sink)
          + Cardinality({i \in 1..Len(delivered) : PolicyDiscards(delivered[i])})

\* C8 witness: a sample above the limit and a sample at the limit have been
\* received, and the sink was called once
C8_Witness ==
    /\ Len(delivered) = 2
    /\ \E i \in 1..2 : ~delivered[i].nil /\ delivered[i].MiBAllowed = MaxAllowed + 1
    /\ \E i \in 1..2 : ~delivered[i].nil /\ delivered[i].MiBAllowed = MaxAllowed
    /\ Len(sink) = 1

\* C9: the signal of an accepted sample is (100, 0) when MiBUsed >= MiBAllowed,
\* and otherwise (floor(100 * MiBUsed / MiBAllowed), MiBAllowed - MiBUsed).
C9_SignalValues ==
    \A i \in 1..Len(sink) :
        i <= Len(Accepted) =>
            LET q == Accepted[i]
            IN IF q.MiBUsed >= q.MiBAllowed
                 THEN sink[i] = <<100, 0>>
                 ELSE /\ sink[i][2] = q.MiBAllowed - q.MiBUsed
                      /\ q.MiBAllowed > 0 =>
                            sink[i][1] = FloorPercent(q.MiBUsed, q.MiBAllowed)

\* C10: the calls of the sink are, in order, the signals of the received
\* samples that the policy does not discard: none is missing, doubled or out
\* of order.
C10_SinkInStreamOrder ==
    /\ Len(sink) = Len(Accepted)
    /\ \A i \in 1..Len(sink) : sink[i] \in QuotaSignals(Accepted[i])

\* C10 witness: two accepted samples with different signals were received,
\* and the sink was called for both
C10_Witness ==
    /\ Len(sink) = 2
    /\ sink[1] # sink[2]
    /\ Len(delivered) = 2

---------------------------------------------------------------------------
(* Properties of the whole process *)

\* the callback name was invoked
Invoked(name) == \E e \in cbUsers : e.cb = name

\* the callback name was invoked after a Start call had returned an error
InvokedAfterFailure(name) == \E e \in cbUsers : e.cb = name /\ e.afterFailure

\* the Start call that was made first, which wins the launch guard
Winner == CHOOSE c \in Calls : Made(c) /\ \A d \in Calls : Made(d) => c <= d

\* C11: at most one consumer drains the quota stream, and at most one call
\* of the sink BandwidthUpdate is executing at any time.
C11_SingleSerialConsumer ==
    /\ consumers <= 1
    /\ inSink <= 1

\* C11 witness: the sink is executing while another sample waits in the
\* stream
C11_Witness ==
    /\ consumers = 1
    /\ inSink = 1
    /\ updates # <<>>
    /\ sink # <<>>

\* the steps of the afterStart sequence, in the order of the claim
AfterOrder ==
    <<"bandwidthUpdates", "AfterStart", "AfterStart returned", "surveyRequest",
      "ShowSurvey">>

\* C12: after the initialization-complete event the steps happen in the
\* order: the bandwidth notifier is started, AfterStart is called and
\* returns, the survey is resolved; ShowSurvey comes last, and only when the
\* resolution gave no error and a non-empty url.
C12_AfterStartOrder ==
    /\ Len(events) <= Len(AfterOrder)
    /\ \A i \in 1..Len(events) : events[i] = AfterOrder[i]
    /\ events # <<>> => consumers >= 1
    /\ Invoked("AfterStart") <=> (Len(events) >= 2)
    /\ Invoked("ShowSurvey") <=> (Len(events) = Len(AfterOrder))
    /\ Invoked("ShowSurvey") =>
          /\ ~surveyOut.panic
          /\ surveyOut.err = "nil"
          /\ surveyOut.url # ""

\* C12 witness: the whole sequence has happened, with a survey shown
C12_Witness ==
    /\ events = AfterOrder
    /\ afterPc = "done"
    /\ surveyOut.url = "https://b.example/survey"

\* C16: after a fetch or parse error of the survey resolution ShowSurvey is
\* not called, AfterStart has been called, the notifier's consumer exists,
\* run is still in the engine, and a Start call fails only with one of the
\* two readiness timeouts.
C16_SurveyErrorSwallowed ==
    (afterPc \in {"show", "done"} /\ surveyOut.err # "nil") =>
        /\ afterPc = "done"
        /\ ~Invoked("ShowSurvey")
        /\ Invoked("AfterStart")
        /\ consumers = 1
        /\ runPc = "engine"
        /\ \A c \in Calls :
              Done(c) => (Succeeded(c) \/ call[c].err \in {ErrHTTP, ErrSOCKS})

\* C16 witness: the resolution gave an error, a sample has reached the sink
\* and a Start call has succeeded
C16_Witness ==
    /\ afterPc = "done"
    /\ surveyOut.err # "nil"
    /\ sink # <<>>
    /\ \E c \in Calls : Succeeded(c)

\* C18: the step in which a Start call returns a timeout error changes
\* nothing of run, of the readiness values, of the afterStart sequence and
\* of the notifier.
C18_TimeoutLeavesInitRunning ==
    [][\A c \in Calls :
          (~Failed(c) /\ Failed(c)') =>
              UNCHANGED <<runPc, httpAddr, socksAddr, afterVars, bwVars>>]_vars

\* C18 witness: the one Start call made has returned the HTTP timeout error,
\* and after that both addresses were set and AfterStart, BandwidthUpdate and
\* ShowSurvey were invoked
C18_Witness ==
    \E c \in Calls :
        /\ Failed(c)
        /\ call[c].err = ErrHTTP
        /\ \A d \in Calls : Made(d) => d = c
        /\ httpAddr # NoAddr
        /\ socksAddr # NoAddr
        /\ InvokedAfterFailure("AfterStart")
        /\ InvokedAfterFailure("BandwidthUpdate")
        /\ InvokedAfterFailure("ShowSurvey")

\* C20: run belongs to the Start call that won the launch guard: every
\* callback is invoked on that call's user object, and the survey is
\* resolved for that call's locale.
C20_OnlyFirstLauncher ==
    /\ runPc # "none" => runOwner = Winner
    /\ \A e \in cbUsers : e.user = Winner
    /\ surveyOut.lookups # <<>> =>
          LET l == LocaleOf(Winner)
          IN surveyOut.lookups[1] =
                [i \in 1..Len(l) |-> IF l[i] = "_" THEN "-" ELSE l[i]]

\* C20 witness: the first call failed and a later call succeeded, and the
\* four callbacks were invoked on the first call's user object
C20_Witness ==
    /\ \E c \in Calls : Made(c)
    /\ Failed(Winner)
    /\ \E c \in Calls : c # Winner /\ Succeeded(c)
    /\ \A name \in {"ConfigUpdate", "AfterStart", "ShowSurvey", "BandwidthUpdate"} :
          \E e \in cbUsers : e.cb = name /\ e.user = Winner /\ e.afterFailure
    /\ surveyOut.lookups = <<frFR>>

---------------------------------------------------------------------------
(* Properties of the survey resolution *)

\* a resolution over a locale map has returned or panicked
ResolvedOverMap == svPc = "returned" /\ svFetch.kind = "doc"

\* the locale map of the fetched document
LocaleMap == svFetch.surveys

\* the key L of the first lookup
FirstKey == svOut.lookups[1]

\* the resolution returned (url, err)
Resolved(url, err) == ~svOut.panic /\ svOut.url = url /\ svOut.err = err

\* what the lookup of key k alone gives over a map whose entry at k, if
\* any, is a survey or malformed
ResolvedAsKey(m, k) ==
    IF k \in DOMAIN m
      THEN IF m[k].kind = "info" THEN Resolved(m[k].url, "nil")
                                 ELSE Resolved("", "parse")
      ELSE Resolved("", "nil")

\* C13: over every locale map and requested key L: when the map has a
\* survey at L the result is its url without an error, an empty url
\* included; when the map lacks L and L is not en-US the result is that of
\* the lookup of en-US; when it lacks L and L is en-US the result is
\* ("", nil).
C13_LocaleFallback ==
    ResolvedOverMap =>
        /\ (FirstKey \in DOMAIN LocaleMap /\ LocaleMap[FirstKey].kind = "info")
              => Resolved(LocaleMap[FirstKey].url, "nil")
        /\ (/\ FirstKey \notin DOMAIN LocaleMap
            /\ FirstKey # enUS
            /\ (enUS \in DOMAIN LocaleMap => LocaleMap[enUS] # NullEntry))
              => ResolvedAsKey(LocaleMap, enUS)
        /\ (FirstKey \notin DOMAIN LocaleMap /\ FirstKey = enUS)
              => Resolved("", "nil")

\* a map holding en-US alone has resolved de-DE to the url of en-US
C13_Witness ==
    /\ ResolvedOverMap
    /\ svLocale = deDE
    /\ DOMAIN LocaleMap = {enUS}
    /\ LocaleMap[enUS] = SurveyInfo("https://a.example/survey")
    /\ Resolved("https://a.example/survey", "nil")

\* C14: when the map has the requested key and its value is not a
\* well-formed survey, the resolution returns a parse error and en-US is not
\* looked up.
C14_MalformedIsParseError ==
    (ResolvedOverMap /\ FirstKey \in DOMAIN LocaleMap
                     /\ LocaleMap[FirstKey].kind # "info")
        => /\ Resolved("", "parse")
           /\ svOut.lookups = <<FirstKey>>

\* C17: the key of the first lookup is the requested locale with every
\* underscore replaced by a hyphen, and no key with an underscore is ever
\* looked up.
C17_UnderscoresReplaced ==
    ResolvedOverMap =>
        /\ Len(svOut.lookups) >= 1
        /\ Len(FirstKey) = Len(svLocale)
        /\ \A i \in 1..Len(svLocale) :
              FirstKey[i] = (IF svLocale[i] = "_" THEN "-" ELSE svLocale[i])
        /\ \A n \in 1..Len(svOut.lookups) :
              \A i \in 1..Len(svOut.lookups[n]) : svOut.lookups[n][i] # "_"

\* fr_FR has resolved to the survey of fr-FR over a map that has both keys
C17_Witness ==
    /\ ResolvedOverMap
    /\ svLocale = fr_FR
    /\ {frFR, fr_FR} \subseteq DOMAIN LocaleMap
    /\ LocaleMap[frFR] = SurveyInfo("https://a.example/survey")
    /\ LocaleMap[fr_FR] = SurveyInfo("https://b.example/survey")
    /\ svOut.lookups = <<frFR>>
    /\ Resolved("https://a.example/survey", "nil")

\* C19: a resolution makes at most two map lookups: the key changes at most
\* once, to en-US, and a lookup of en-US is the last one.
C19_AtMostTwoLookups ==
    svPc = "returned" =>
        /\ Len(svOut.lookups) <= 2
        /\ \A n \in 1..Len(svOut.lookups) :
              /\ (n > 1 => svOut.lookups[n] = enUS)
              /\ (svOut.lookups[n] = enUS => n = Len(svOut.lookups))

\* a resolution has looked up a missing key and then en-US
C19_Witness ==
    /\ svPc = "returned"
    /\ Len(svOut.lookups) = 2
    /\ svOut.lookups[2] = enUS

===========================================================================
